---- MODULE Spec2Model ----
(***************************************************************************)
(* A model of the bucketed k-d tree of src/src/kiddo.rs: the KdTree        *)
(* structure, its mutators add and remove (with the leaf split), and its   *)
(* query algorithms with their periodic variants.                          *)
(*                                                                         *)
(* Scalars of type A are modelled by integers.  Stored coordinates are     *)
(* even, so the midpoint min + (max - min) / 2 computed by split is an     *)
(* integer and is computed exactly, as the f64 arithmetic of the code      *)
(* computes it on such inputs.  The three non-finite floats are modelled   *)
(* by the values PosInf, NegInf and NaN.                                   *)
(*                                                                         *)
(* Arrays are 1-based here and 0-based in the code: dimension dim of the   *)
(* model is index dim - 1 of the code.                                     *)
(***************************************************************************)
EXTENDS Integers, Sequences, FiniteSets, TLC

\* ------------------------------------------------------------------------
\* Scalars
\* ------------------------------------------------------------------------
K == 2

PosInf == 1000000
NegInf == -1000000
NaN == 7777777

is_finite(n) == n \notin {PosInf, NegInf, NaN}

Min2(a, b) == IF a < b THEN a ELSE b
Max2(a, b) == IF a > b THEN a ELSE b

Dims == 1..K

\* Option<[A; K]>::None
None == <<>>

\* ------------------------------------------------------------------------
\* Bounds of the model
\* ------------------------------------------------------------------------
MaxAdds == 3
MaxK == 3

\* the capacities of the trees
Capacities == {1, 2}

\* the period every explicit-period query is called with
L == <<8, 8>>
\* the periodic vectors a tree is constructed with
Periods == {<<8, 8>>, <<8, 6>>}

\* the arguments of get_distance called on its own: points inside and outside
\* of the boxes of Periods
GdPoints == {<<x, y>> : x \in {-14, 0, 3, 7, 20}, y \in {0, 5}}

\* points with a non-finite coordinate
NonFinite == {<<NaN, 0>>, <<0, PosInf>>, <<NegInf, 4>>}

\* the (point, payload) arguments of add and remove: two payloads at one
\* point, one payload at several points, and a point that is not finite
MutInputs == {<< <<0, 0>>, 0 >>, << <<0, 4>>, 0 >>, << <<0, 4>>, 1 >>,
              << <<6, 0>>, 1 >>, << <<6, 4>>, 0 >>, << <<NaN, 0>>, 0 >>}
\* the arguments of the queries
QueryPoints == {<<0, 0>>, <<2, 0>>, <<6, 0>>, <<2, 4>>, <<6, 4>>}
Radii == {0, 4, 16, 20, 52}
\* the arguments of the queries that are made on both trees
EquivPoints == {<<0, 0>>, <<2, 0>>, <<6, 4>>}
EquivRadii == {4, 16, 20}
\* the arguments of best_n_within; with max_qty = 0 it panics as soon as a
\* pair lies within the radius
BestPoints == {<<6, 0>>, <<2, 4>>}
BestRadii == {16, 52}
Quantities == {0, 1, 2}
\* POINT_A .. POINT_D of tests/count_dist.rs, in the order it adds them, and
\* the arguments of its queries
TestPoints == << << <<0, 0>>, 0 >>, << <<1, 1>>, 1 >>, << <<2, 2>>, 2 >>, << <<3, 3>>, 3 >> >>
TestQueryPoints == {TestPoints[i][1] : i \in DOMAIN TestPoints}
TestNums == 0..(Len(TestPoints) + 1)
TestRadii == {0, 1, 2}
TestCapacities == {2}
\* arguments of add and remove with points at the middle of two others, where
\* a split value falls
TieInputs == {<< <<0, 0>>, 0 >>, << <<4, 0>>, 1 >>, << <<2, 0>>, 0 >>,
              << <<2, 4>>, 1 >>, << <<0, 4>>, 0 >>}

InBox(p, per) == \A i \in Dims : 0 <= p[i] /\ p[i] < per[i]

\* ------------------------------------------------------------------------
\* Vec helpers
\* ------------------------------------------------------------------------
\* Vec::swap_remove(i): the element at i is replaced by the last element
swap_remove(v, i) ==
    IF i = Len(v) THEN SubSeq(v, 1, Len(v) - 1)
    ELSE [j \in 1..(Len(v) - 1) |-> IF j = i THEN v[Len(v)] ELSE v[j]]

\* ------------------------------------------------------------------------
\* The tree
\* ------------------------------------------------------------------------
\* with_per_node_capacity / periodic_with_per_node_capacity
NewTree(capacity, periodic) ==
    [size |-> 0,
     min_bounds |-> [i \in Dims |-> PosInf],
     max_bounds |-> [i \in Dims |-> NegInf],
     leaf |-> TRUE,
     points |-> <<>>,
     bucket |-> <<>>,
     capacity |-> capacity,
     periodic |-> periodic]

is_leaf(self) == self.leaf

NotFiniteErr(point) == \E i \in Dims : ~is_finite(point[i])

\* the fold of check_point over the components of periodic
PeriodicErr(periodic) ==
    LET above_bound == \E x \in Dims : \E idx \in Dims : periodic[x] > periodic[idx]
        below_bound == \E x \in Dims : \E idx \in Dims : periodic[x] < periodic[idx]
    IN above_bound \/ below_bound

check_point(t, point) ==
    IF NotFiniteErr(point) THEN "NonFiniteCoordinate"
    ELSE IF t.periodic # None /\ PeriodicErr(t.periodic) THEN "PeriodicOutOfBounds"
    ELSE "Ok"

extend(t, point) ==
    [t EXCEPT
        !.min_bounds = [i \in Dims |-> IF point[i] < @[i] THEN point[i] ELSE @[i]],
        !.max_bounds = [i \in Dims |-> IF point[i] > @[i] THEN point[i] ELSE @[i]]]

\* split_value = min: the half of the extent is not added
SplitValueAtMin(min, max) == min

\* the split value of split: the middle of the bounds on the split dimension
SplitValue(min, max) == min + (max - min) \div 2

\* the loop of split over 0..1 instead of 0..K: only the first dimension is
\* looked at
RECURSIVE ChooseDimFirstAxis(_, _, _, _)
ChooseDimFirstAxis(t, dim, max, split_dimension) ==
    IF dim > 1 THEN split_dimension
    ELSE LET diff == t.max_bounds[dim] - t.min_bounds[dim]
         IN IF diff > max THEN ChooseDimFirstAxis(t, dim + 1, diff, dim)
            ELSE ChooseDimFirstAxis(t, dim + 1, max, split_dimension)

\* the loop of split that chooses the dimension: state <<max, split_dimension>>,
\* split_dimension 0 standing for Option::None
RECURSIVE ChooseDim(_, _, _, _)
ChooseDim(t, dim, max, split_dimension) ==
    IF dim > K THEN split_dimension
    ELSE LET diff == t.max_bounds[dim] - t.min_bounds[dim]
         IN IF diff > max THEN ChooseDim(t, dim + 1, diff, dim)
            ELSE ChooseDim(t, dim + 1, max, split_dimension)

belongs_in_left(t, point) == point[t.split_dimension] < t.split_value

RECURSIVE add_to_bucket(_, _, _)
RECURSIVE split(_)
RECURSIVE Drain(_, _, _, _, _, _)

\* the while loop of split with point[split_dimension] <= split_value: a point
\* at the split value goes to the left
RECURSIVE DrainTiesLeft(_, _, _, _, _, _)
DrainTiesLeft(points, bucket, left, right, split_dimension, split_value) ==
    IF points = <<>> THEN <<left, right>>
    ELSE LET point == points[1]
             data == bucket[1]
             points2 == swap_remove(points, 1)
             bucket2 == swap_remove(bucket, 1)
         IN IF point[split_dimension] <= split_value
            THEN DrainTiesLeft(points2, bucket2, add_to_bucket(left, point, data), right,
                               split_dimension, split_value)
            ELSE DrainTiesLeft(points2, bucket2, left, add_to_bucket(right, point, data),
                               split_dimension, split_value)

\* the while loop of split with data = bucket.pop(): the point is taken from
\* the front and the payload from the back
RECURSIVE DrainPoppingBucket(_, _, _, _, _, _)
DrainPoppingBucket(points, bucket, left, right, split_dimension, split_value) ==
    IF points = <<>> THEN <<left, right>>
    ELSE LET point == points[1]
             data == bucket[Len(bucket)]
             points2 == swap_remove(points, 1)
             bucket2 == SubSeq(bucket, 1, Len(bucket) - 1)
         IN IF point[split_dimension] < split_value
            THEN DrainPoppingBucket(points2, bucket2, add_to_bucket(left, point, data),
                                    right, split_dimension, split_value)
            ELSE DrainPoppingBucket(points2, bucket2, left,
                                    add_to_bucket(right, point, data),
                                    split_dimension, split_value)

\* the while loop of split: the leaf is drained by swap_remove(0)
Drain(points, bucket, left, right, split_dimension, split_value) ==
    IF points = <<>> THEN <<left, right>>
    ELSE LET point == points[1]
             data == bucket[1]
             points2 == swap_remove(points, 1)
             bucket2 == swap_remove(bucket, 1)
         IN IF point[split_dimension] < split_value
            THEN Drain(points2, bucket2, add_to_bucket(left, point, data), right,
                       split_dimension, split_value)
            ELSE Drain(points2, bucket2, left, add_to_bucket(right, point, data),
                       split_dimension, split_value)

\* split with both children constructed by with_per_node_capacity, whatever
\* self.periodic is
split_plain_children(t) ==
    LET split_dimension == ChooseDim(t, 1, 0, 0)
    IN IF split_dimension = 0 THEN t
       ELSE LET min == t.min_bounds[split_dimension]
                max == t.max_bounds[split_dimension]
                split_value == min + (max - min) \div 2
                lr == Drain(t.points, t.bucket,
                            NewTree(t.capacity, None),
                            NewTree(t.capacity, None),
                            split_dimension, split_value)
            IN [size |-> t.size,
                min_bounds |-> t.min_bounds,
                max_bounds |-> t.max_bounds,
                leaf |-> FALSE,
                left |-> lr[1],
                right |-> lr[2],
                split_value |-> split_value,
                split_dimension |-> split_dimension,
                periodic |-> t.periodic]

split(t) ==
    LET split_dimension == ChooseDim(t, 1, 0, 0)
    IN IF split_dimension = 0 THEN t
       ELSE LET min == t.min_bounds[split_dimension]
                max == t.max_bounds[split_dimension]
                split_value == SplitValue(min, max)
                lr == Drain(t.points, t.bucket,
                            NewTree(t.capacity, t.periodic),
                            NewTree(t.capacity, t.periodic),
                            split_dimension, split_value)
            IN [size |-> t.size,
                min_bounds |-> t.min_bounds,
                max_bounds |-> t.max_bounds,
                leaf |-> FALSE,
                left |-> lr[1],
                right |-> lr[2],
                split_value |-> split_value,
                split_dimension |-> split_dimension,
                periodic |-> t.periodic]

\* add_to_bucket with self.size >= cap: the leaf splits as it reaches its
\* capacity
add_to_bucket_eager(t, point, data) ==
    LET t1 == extend(t, point)
        t2 == [t1 EXCEPT !.points = Append(@, point),
                         !.bucket = Append(@, data),
                         !.size = @ + 1]
    IN IF t2.size >= t2.capacity THEN split(t2) ELSE t2

add_to_bucket(t, point, data) ==
    LET t1 == extend(t, point)
        t2 == [t1 EXCEPT !.points = Append(@, point),
                         !.bucket = Append(@, data),
                         !.size = @ + 1]
    IN IF t2.size > t2.capacity THEN split(t2) ELSE t2

\* add_unchecked without the self.size += 1 of the stem
RECURSIVE add_unchecked_uncounted(_, _, _)
add_unchecked_uncounted(t, point, data) ==
    IF t.leaf THEN add_to_bucket(t, point, data)
    ELSE LET t1 == IF point[t.split_dimension] < t.split_value
                   THEN [t EXCEPT !.left = add_unchecked_uncounted(@, point, data)]
                   ELSE [t EXCEPT !.right = add_unchecked_uncounted(@, point, data)]
         IN extend(t1, point)

\* add_unchecked without the self.extend(point) of the stem
RECURSIVE add_unchecked_unextended(_, _, _)
add_unchecked_unextended(t, point, data) ==
    IF t.leaf THEN add_to_bucket(t, point, data)
    ELSE LET t1 == IF point[t.split_dimension] < t.split_value
                   THEN [t EXCEPT !.left = add_unchecked_unextended(@, point, data)]
                   ELSE [t EXCEPT !.right = add_unchecked_unextended(@, point, data)]
         IN [t1 EXCEPT !.size = @ + 1]

RECURSIVE add_unchecked(_, _, _)
add_unchecked(t, point, data) ==
    IF t.leaf THEN add_to_bucket(t, point, data)
    ELSE LET t1 == IF point[t.split_dimension] < t.split_value
                   THEN [t EXCEPT !.left = add_unchecked(@, point, data)]
                   ELSE [t EXCEPT !.right = add_unchecked(@, point, data)]
             t2 == extend(t1, point)
         IN [t2 EXCEPT !.size = @ + 1]

\* add with check_point called after add_unchecked instead of before it
add_checked_late(t, point, data) ==
    [err |-> check_point(t, point), val |-> 0, tree |-> add_unchecked(t, point, data)]

\* add: the result and the tree after the call
add(t, point, data) ==
    LET e == check_point(t, point)
    IN IF e # "Ok" THEN [err |-> e, val |-> 0, tree |-> t]
       ELSE [err |-> "Ok", val |-> 0, tree |-> add_unchecked(t, point, data)]

\* the scan of a leaf by remove with p_index += 1 after a removal as well: the
\* element that swap_remove moves to p_index is not looked at
RECURSIVE RemoveScanSkipping(_, _, _, _, _, _, _)
RemoveScanSkipping(points, bucket, size, removed, p_index, point, data) ==
    IF ~(p_index - 1 < size) THEN <<points, bucket, size, removed>>
    ELSE IF points[p_index] = point /\ bucket[p_index] = data
         THEN RemoveScanSkipping(swap_remove(points, p_index), swap_remove(bucket, p_index),
                                 size - 1, removed + 1, p_index + 1, point, data)
         ELSE RemoveScanSkipping(points, bucket, size, removed, p_index + 1, point, data)

\* the scan of a leaf by remove: state <<points, bucket, size, removed>>
RECURSIVE RemoveScan(_, _, _, _, _, _, _)
RemoveScan(points, bucket, size, removed, p_index, point, data) ==
    IF ~(p_index - 1 < size) THEN <<points, bucket, size, removed>>
    ELSE IF points[p_index] = point /\ bucket[p_index] = data
         THEN RemoveScan(swap_remove(points, p_index), swap_remove(bucket, p_index),
                         size - 1, removed + 1, p_index, point, data)
         ELSE RemoveScan(points, bucket, size, removed, p_index + 1, point, data)

\* remove: the result (the number removed) and the tree after the call
RECURSIVE remove(_, _, _)
remove(t, point, data) ==
    LET e == check_point(t, point)
    IN IF e # "Ok" THEN [err |-> e, val |-> 0, tree |-> t]
       ELSE IF t.leaf
       THEN LET s == RemoveScan(t.points, t.bucket, t.size, 0, 1, point, data)
            IN [err |-> "Ok", val |-> s[4],
                tree |-> [t EXCEPT !.points = s[1], !.bucket = s[2], !.size = s[3]]]
       ELSE LET r == remove(t.right, point, data)
                l == remove(t.left, point, data)
            IN IF r.err # "Ok" THEN [err |-> r.err, val |-> 0,
                                     tree |-> [t EXCEPT !.right = r.tree]]
               ELSE IF l.err # "Ok"
               THEN [err |-> l.err, val |-> 0,
                     tree |-> [t EXCEPT !.right = r.tree, !.left = l.tree,
                                        !.size = @ - r.val]]
               ELSE [err |-> "Ok", val |-> r.val + l.val,
                     tree |-> [t EXCEPT !.right = r.tree, !.left = l.tree,
                                        !.size = @ - r.val - l.val]]

\* ------------------------------------------------------------------------
\* Distances
\* ------------------------------------------------------------------------
RECURSIVE Pow(_, _)
Pow(b, e) == IF e = 0 THEN 1 ELSE b * Pow(b, e - 1)

RECURSIVE SumTo(_, _)
SumTo(f, n) == IF n = 0 THEN 0 ELSE f[n] + SumTo(f, n - 1)

\* distance::squared_euclidean, the metric every query is called with; a
\* difference with an infinite operand is infinite
squared_euclidean(a, b) ==
    IF \E i \in Dims : ~is_finite(a[i]) \/ ~is_finite(b[i]) THEN PosInf
    ELSE SumTo([i \in Dims |-> (a[i] - b[i]) * (a[i] - b[i])], K)

\* util::distance_to_space: the metric between p1 and p1 clamped to the box
distance_to_space(p1, min_bounds, max_bounds) ==
    LET p2 == [i \in Dims |->
                 IF p1[i] < min_bounds[i] THEN min_bounds[i]
                 ELSE IF p1[i] > max_bounds[i] THEN max_bounds[i]
                 ELSE p1[i]]
    IN squared_euclidean(p1, p2)

\* the loop of get_distance with current_image[idx] = (image_idx / 3^idx) % 3:
\* the images 0, +1, +2 instead of -1, 0, +1
RECURSIVE ImageMinForward(_, _, _, _, _)
ImageMinForward(a, b, periodic, image_idx, min) ==
    IF image_idx >= Pow(3, K) THEN min
    ELSE LET current_image == [idx \in Dims |-> (image_idx \div Pow(3, idx - 1)) % 3]
             new_a == [idx \in Dims |-> a[idx] + current_image[idx] * periodic[idx]]
             image_distance == squared_euclidean(new_a, b)
         IN ImageMinForward(a, b, periodic, image_idx + 1, Min2(min, image_distance))

\* the loop of get_distance over the 3^K images of a, from image_idx on
RECURSIVE ImageMin(_, _, _, _, _)
ImageMin(a, b, periodic, image_idx, min) ==
    IF image_idx >= Pow(3, K) THEN min
    ELSE LET current_image == [idx \in Dims |-> ((image_idx \div Pow(3, idx - 1)) % 3) - 1]
             new_a == [idx \in Dims |-> a[idx] + current_image[idx] * periodic[idx]]
             image_distance == squared_euclidean(new_a, b)
         IN ImageMin(a, b, periodic, image_idx + 1, Min2(min, image_distance))

get_distance(a, b, periodic) ==
    IF periodic = None THEN squared_euclidean(a, b)
    ELSE ImageMin(a, b, periodic, 0,
                  SumTo([i \in Dims |-> periodic[i] * periodic[i]], K))

\* number of calls of the metric made by one get_distance
GetDistanceCalls(periodic) == IF periodic = None THEN 1 ELSE Pow(3, K)

\* ------------------------------------------------------------------------
\* Heaps.  A BinaryHeap<HeapElement> is a sequence of [distance, element];
\* HeapElement is ordered by its distance.  evaluated is kept in ascending
\* order of distance, so that its top (the greatest) is its last element and
\* into_sorted_vec is the sequence itself.
\* ------------------------------------------------------------------------
RECURSIVE InsertSorted(_, _)
InsertSorted(h, e) ==
    IF h = <<>> THEN <<e>>
    ELSE IF h[Len(h)].distance <= e.distance THEN Append(h, e)
    ELSE Append(InsertSorted(SubSeq(h, 1, Len(h) - 1), e), h[Len(h)])

\* BinaryHeap::append
RECURSIVE HeapAppend(_, _)
HeapAppend(h, other) ==
    IF other = <<>> THEN h
    ELSE HeapAppend(InsertSorted(h, other[1]), Tail(other))

\* index of the top of a pending heap: the greatest stored distance
RECURSIVE TopIndex(_, _, _)
TopIndex(pending, i, best) ==
    IF i > Len(pending) THEN best
    ELSE IF pending[i].distance > pending[best].distance
         THEN TopIndex(pending, i + 1, i)
         ELSE TopIndex(pending, i + 1, best)

HeapPeek(pending) == pending[TopIndex(pending, 2, 1)]
HeapPop(pending) ==
    LET i == TopIndex(pending, 2, 1)
    IN [j \in 1..(Len(pending) - 1) |-> IF j < i THEN pending[j] ELSE pending[j + 1]]

Take(v, n) == SubSeq(v, 1, Min2(n, Len(v)))

\* Vec<(A, &T)> from a heap: HeapElement into (distance, element)
IntoPairs(h) == [i \in 1..Len(h) |-> <<h[i].distance, h[i].element>>]

\* ------------------------------------------------------------------------
\* Queries.  The state of a search is [pending, evaluated, calls]: the two
\* heaps and the number of calls of the metric made so far.
\* ------------------------------------------------------------------------
\* populate_pending with a BinaryHeap or a Vec (both push at the end here):
\* <<pending, curr, calls>> once curr is a leaf
RECURSIVE populate_pending(_, _, _, _, _)
populate_pending(point, max_dist, pending, curr, calls) ==
    IF curr.leaf THEN <<pending, curr, calls>>
    ELSE LET candidate == IF belongs_in_left(curr, point) THEN curr.right ELSE curr.left
             next == IF belongs_in_left(curr, point) THEN curr.left ELSE curr.right
             candidate_to_space ==
                 distance_to_space(point, candidate.min_bounds, candidate.max_bounds)
         IN IF candidate_to_space <= max_dist
            THEN populate_pending(point, max_dist,
                     Append(pending, [distance |-> candidate_to_space * (-1),
                                      element |-> candidate]),
                     next, calls + 1)
            ELSE populate_pending(point, max_dist, pending, next, calls + 1)

\* the for loop of nearest_step with element.distance < max_dist
RECURSIVE NearestScanStrict(_, _, _, _, _, _, _)
NearestScanStrict(self, point, num, max_dist, leaf, i, evaluated) ==
    IF i > Len(leaf.points) \/ i > Len(leaf.bucket) THEN evaluated
    ELSE LET element == [distance |-> get_distance(point, leaf.points[i], self.periodic),
                         element |-> leaf.bucket[i]]
             ev == IF element.distance < max_dist
                   THEN IF Len(evaluated) < num THEN InsertSorted(evaluated, element)
                        ELSE IF element.distance < evaluated[Len(evaluated)].distance
                        THEN InsertSorted(SubSeq(evaluated, 1, Len(evaluated) - 1), element)
                        ELSE evaluated
                   ELSE evaluated
         IN NearestScanStrict(self, point, num, max_dist, leaf, i + 1, ev)

\* the for loop of nearest_step over the elements of a leaf
RECURSIVE NearestScan(_, _, _, _, _, _, _)
NearestScan(self, point, num, max_dist, leaf, i, evaluated) ==
    IF i > Len(leaf.points) \/ i > Len(leaf.bucket) THEN evaluated
    ELSE LET element == [distance |-> get_distance(point, leaf.points[i], self.periodic),
                         element |-> leaf.bucket[i]]
             ev == IF element.distance <= max_dist
                   THEN IF Len(evaluated) < num THEN InsertSorted(evaluated, element)
                        ELSE IF element.distance < evaluated[Len(evaluated)].distance
                        THEN InsertSorted(SubSeq(evaluated, 1, Len(evaluated) - 1), element)
                        ELSE evaluated
                   ELSE evaluated
         IN NearestScan(self, point, num, max_dist, leaf, i + 1, ev)

nearest_step(self, point, num, max_dist, qs) ==
    LET top == HeapPeek(qs.pending)
        pp == populate_pending(point, max_dist, HeapPop(qs.pending), top.element, qs.calls)
        curr == pp[2]
    IN [pending |-> pp[1],
        evaluated |-> NearestScan(self, point, num, max_dist, curr, 1, qs.evaluated),
        calls |-> pp[3] + Min2(Len(curr.points), Len(curr.bucket))
                            * GetDistanceCalls(self.periodic)]

RootPending(self) ==
    [pending |-> <<[distance |-> 0, element |-> self]>>, evaluated |-> <<>>, calls |-> 0]

\* the while loop of nearest without the comparison of the nearest pending
\* node with the farthest evaluated element: it ends once num are evaluated
RECURSIVE NearestLoopUntilFull(_, _, _, _)
NearestLoopUntilFull(self, point, num, qs) ==
    IF qs.pending # <<>> /\ Len(qs.evaluated) < num
    THEN NearestLoopUntilFull(self, point, num, nearest_step(self, point, num, PosInf, qs))
    ELSE qs

\* the while loop of nearest without its second conjunct: every pending node
\* is visited
RECURSIVE NearestLoopExhaustive(_, _, _, _)
NearestLoopExhaustive(self, point, num, qs) ==
    IF qs.pending # <<>>
    THEN NearestLoopExhaustive(self, point, num, nearest_step(self, point, num, PosInf, qs))
    ELSE qs

\* the while loop of nearest and nearest_periodic
RECURSIVE NearestLoop(_, _, _, _)
NearestLoop(self, point, num, qs) ==
    IF qs.pending # <<>>
       /\ (Len(qs.evaluated) < num
           \/ -HeapPeek(qs.pending).distance <= qs.evaluated[Len(qs.evaluated)].distance)
    THEN NearestLoop(self, point, num, nearest_step(self, point, num, PosInf, qs))
    ELSE qs

\* nearest with std::cmp::max(num, self.size) in the place of std::cmp::min
nearest_max(self, point, num0) ==
    LET e == check_point(self, point)
        num == Max2(num0, self.size)
    IN IF e # "Ok" THEN [err |-> e, val |-> <<>>, calls |-> 0]
       ELSE IF num = 0 THEN [err |-> "Ok", val |-> <<>>, calls |-> 0]
       ELSE LET qs == NearestLoop(self, point, num, RootPending(self))
            IN [err |-> "Ok", val |-> Take(IntoPairs(qs.evaluated), num), calls |-> qs.calls]

nearest(self, point, num0) ==
    LET e == check_point(self, point)
        num == Min2(num0, self.size)
    IN IF e # "Ok" THEN [err |-> e, val |-> <<>>, calls |-> 0]
       ELSE IF num = 0 THEN [err |-> "Ok", val |-> <<>>, calls |-> 0]
       ELSE LET qs == NearestLoop(self, point, num, RootPending(self))
            IN [err |-> "Ok", val |-> Take(IntoPairs(qs.evaluated), num), calls |-> qs.calls]

\* the images of the query point that a periodic query checks: for each
\* image in 1..2^K - 1, the point moved by one period along the flagged axes,
\* if the distance to the side, edge or vertex is below the cutoff
RECURSIVE ImagesToCheck(_, _, _, _)
ImagesToCheck(point, periodic, cutoff, image) ==
    IF image >= Pow(2, K) THEN <<>>
    ELSE LET closest_side_dist2 ==
                 [side \in Dims |->
                     LET query_component == point[side]
                         upper == periodic[side] - query_component
                     IN Min2(upper, query_component) * Min2(upper, query_component)]
             closest_image == [idx \in Dims |-> ((image \div Pow(2, idx - 1)) % 2) = 1]
             dist_to_side_edge_or_other ==
                 SumTo([side \in Dims |->
                          IF closest_image[side] THEN closest_side_dist2[side] ELSE 0], K)
             \* query_component < periodic_component / 2, without the division
             image_to_check ==
                 [idx \in Dims |->
                     IF closest_image[idx]
                     THEN IF 2 * point[idx] < periodic[idx]
                          THEN point[idx] + periodic[idx]
                          ELSE point[idx] - periodic[idx]
                     ELSE point[idx]]
             rest == ImagesToCheck(point, periodic, cutoff, image + 1)
         IN IF dist_to_side_edge_or_other < cutoff THEN <<image_to_check>> \o rest
            ELSE rest

\* the fold that finds the largest distance of the canonical image
RECURSIVE LargestDistance(_, _)
LargestDistance(evaluated, acc) ==
    IF evaluated = <<>> THEN acc
    ELSE LargestDistance(Tail(evaluated), Max2(acc, evaluated[1].distance))

\* the loop of nearest_periodic over images_to_check
RECURSIVE NearestImages(_, _, _, _)
NearestImages(self, images, num, qs) ==
    IF images = <<>> THEN qs
    ELSE LET iq == NearestLoop(self, images[1], num, RootPending(self))
         IN NearestImages(self, Tail(images), num,
                [pending |-> qs.pending,
                 evaluated |-> HeapAppend(qs.evaluated, iq.evaluated),
                 calls |-> qs.calls + iq.calls])

nearest_periodic(self, point, num0, periodic) ==
    LET e == check_point(self, point)
        num == Min2(num0, self.size)
    IN IF e # "Ok" THEN [err |-> e, val |-> <<>>, calls |-> 0]
       ELSE IF num = 0 THEN [err |-> "Ok", val |-> <<>>, calls |-> 0]
       ELSE LET qs == NearestLoop(self, point, num, RootPending(self))
                largest_distance == LargestDistance(qs.evaluated, 0)
                images_to_check == ImagesToCheck(point, periodic, largest_distance, 1)
                all == NearestImages(self, images_to_check, num, qs)
            IN [err |-> "Ok", val |-> Take(IntoPairs(all.evaluated), num),
                calls |-> all.calls]

\* the for loop of nearest_one_step with element >= *best_dist: the farthest
\* element is kept
RECURSIVE NearestOneScanFarthest(_, _, _, _, _)
NearestOneScanFarthest(self, point, leaf, i, bs) ==
    IF i > Len(leaf.points) \/ i > Len(leaf.bucket) THEN bs
    ELSE LET element == [distance |-> get_distance(point, leaf.points[i], self.periodic),
                         element |-> leaf.bucket[i]]
         IN IF bs.best_elem = <<>> \/ element.distance >= bs.best_dist
            THEN NearestOneScanFarthest(self, point, leaf, i + 1,
                     [bs EXCEPT !.best_elem = <<element.element>>,
                                !.best_dist = element.distance])
            ELSE NearestOneScanFarthest(self, point, leaf, i + 1, bs)

\* the for loop of nearest_one_step over the elements of a leaf; the state
\* of the search is [pending, best_dist, best_elem, calls], best_elem a
\* sequence of at most one payload (an Option)
RECURSIVE NearestOneScan(_, _, _, _, _)
NearestOneScan(self, point, leaf, i, bs) ==
    IF i > Len(leaf.points) \/ i > Len(leaf.bucket) THEN bs
    ELSE LET element == [distance |-> get_distance(point, leaf.points[i], self.periodic),
                         element |-> leaf.bucket[i]]
         IN IF bs.best_elem = <<>> \/ element.distance < bs.best_dist
            THEN NearestOneScan(self, point, leaf, i + 1,
                     [bs EXCEPT !.best_elem = <<element.element>>,
                                !.best_dist = element.distance])
            ELSE NearestOneScan(self, point, leaf, i + 1, bs)

\* pending is a Vec here: pop takes its last element. visited is a history of
\* the calls, not a value of the code: for each leaf whose elements are passed
\* to the metric, the distance from point to its bounds and *best_dist and
\* best_elem.is_some() as they are when the step is entered
nearest_one_step(self, point, bs) ==
    LET top == bs.pending[Len(bs.pending)]
        evaluated_dist == bs.best_dist
        pp == populate_pending(point, evaluated_dist,
                               SubSeq(bs.pending, 1, Len(bs.pending) - 1),
                               top.element, bs.calls)
        curr == pp[2]
    IN NearestOneScan(self, point, curr, 1,
           [bs EXCEPT !.pending = pp[1],
                      !.calls = pp[3] + Min2(Len(curr.points), Len(curr.bucket))
                                            * GetDistanceCalls(self.periodic),
                      !.visited = Append(@,
                          [bound |-> distance_to_space(point, curr.min_bounds,
                                                       curr.max_bounds),
                           best_dist |-> bs.best_dist,
                           found |-> bs.best_elem # <<>>])])

RootPendingOne(self) ==
    [pending |-> <<[distance |-> 0, element |-> self]>>,
     best_dist |-> PosInf, best_elem |-> <<>>, calls |-> 0, visited |-> <<>>]

\* the while loop of nearest_one and nearest_one_periodic
RECURSIVE NearestOneLoop(_, _, _)
NearestOneLoop(self, point, bs) ==
    IF bs.pending # <<>> /\ (bs.best_elem = <<>> \/ bs.pending[1].distance < bs.best_dist)
    THEN NearestOneLoop(self, point, nearest_one_step(self, point, bs))
    ELSE bs

nearest_one(self, point) ==
    IF self.size = 0 THEN [err |-> "Empty", val |-> <<>>, calls |-> 0]
    ELSE LET e == check_point(self, point)
         IN IF e # "Ok" THEN [err |-> e, val |-> <<>>, calls |-> 0]
            ELSE LET bs == NearestOneLoop(self, point, RootPendingOne(self))
                 IN [err |-> "Ok", val |-> << <<bs.best_dist, bs.best_elem[1]>> >>,
                     calls |-> bs.calls]

\* the loop of nearest_one_periodic with the comparison of the image result
\* and the best result the other way round
RECURSIVE NearestOneImagesFarthest(_, _, _)
NearestOneImagesFarthest(self, images, bs) ==
    IF images = <<>> THEN bs
    ELSE LET ib == NearestOneLoop(self, images[1], RootPendingOne(self))
             bs2 == IF ib.best_dist > bs.best_dist
                    THEN [bs EXCEPT !.best_dist = ib.best_dist,
                                    !.best_elem = ib.best_elem]
                    ELSE bs
         IN NearestOneImagesFarthest(self, Tail(images),
                                     [bs2 EXCEPT !.calls = @ + ib.calls])

\* the loop of nearest_one_periodic over images_to_check
RECURSIVE NearestOneImages(_, _, _)
NearestOneImages(self, images, bs) ==
    IF images = <<>> THEN bs
    ELSE LET ib == NearestOneLoop(self, images[1], RootPendingOne(self))
             bs2 == IF ib.best_dist < bs.best_dist
                    THEN [bs EXCEPT !.best_dist = ib.best_dist,
                                    !.best_elem = ib.best_elem]
                    ELSE bs
         IN NearestOneImages(self, Tail(images), [bs2 EXCEPT !.calls = @ + ib.calls])

nearest_one_periodic(self, point, periodic) ==
    IF self.size = 0 THEN [err |-> "Empty", val |-> <<>>, calls |-> 0]
    ELSE LET e == check_point(self, point)
         IN IF e # "Ok" THEN [err |-> e, val |-> <<>>, calls |-> 0]
            ELSE LET bs == NearestOneLoop(self, point, RootPendingOne(self))
                     canonical_image_result == <<bs.best_dist, bs.best_elem[1]>>
                     images_to_check ==
                         ImagesToCheck(point, periodic, canonical_image_result[1], 1)
                     all == NearestOneImages(self, images_to_check, bs)
                 IN [err |-> "Ok", val |-> << <<all.best_dist, all.best_elem[1]>> >>,
                     calls |-> all.calls]

\* the while loop of within_impl
RECURSIVE WithinLoop(_, _, _, _)
WithinLoop(self, point, radius, qs) ==
    IF qs.pending # <<>> /\ -HeapPeek(qs.pending).distance <= radius
    THEN WithinLoop(self, point, radius,
                    nearest_step(self, point, self.size, radius, qs))
    ELSE qs

\* within_impl: the evaluated heap
within_impl(self, point, radius) ==
    LET e == check_point(self, point)
    IN IF e # "Ok" THEN [err |-> e, val |-> <<>>, calls |-> 0]
       ELSE LET qs == WithinLoop(self, point, radius, RootPending(self))
            IN [err |-> "Ok", val |-> qs.evaluated, calls |-> qs.calls]

\* within that fails on an empty tree as nearest_one does
within_failing_empty(self, point, radius) ==
    IF self.size = 0 THEN [err |-> "Empty", val |-> <<>>, calls |-> 0]
    ELSE LET r == within_impl(self, point, radius)
         IN [r EXCEPT !.val = IntoPairs(@)]

\* within: the heap is turned into a vector by into_sorted_vec
within(self, point, radius) ==
    IF self.size = 0 THEN [err |-> "Ok", val |-> <<>>, calls |-> 0]
    ELSE LET r == within_impl(self, point, radius)
         IN [r EXCEPT !.val = IntoPairs(@)]

\* within_unsorted: the heap is turned into a vector by into_vec, whose order
\* is the heap's internal order; the model leaves the elements as they are
within_unsorted(self, point, radius) ==
    IF self.size = 0 THEN [err |-> "Ok", val |-> <<>>, calls |-> 0]
    ELSE LET r == within_impl(self, point, radius)
         IN [r EXCEPT !.val = IntoPairs(@)]

\* the loop of within_periodic and within_unsorted_periodic over
\* images_to_check: canonical_result.append(&mut image_result)
RECURSIVE WithinImages(_, _, _, _)
WithinImages(self, images, radius, acc) ==
    IF images = <<>> THEN acc
    ELSE LET image_result == within_impl(self, images[1], radius)
         IN IF image_result.err # "Ok" THEN image_result
            ELSE WithinImages(self, Tail(images), radius,
                     [acc EXCEPT !.val = @ \o IntoPairs(image_result.val),
                                 !.calls = @ + image_result.calls])

\* sort_by(|a, b| a.0.partial_cmp(&b.0)): a stable sort on the distance
RECURSIVE SortByDistance(_)
SortByDistance(v) ==
    IF v = <<>> THEN <<>>
    ELSE LET rest == SortByDistance(SubSeq(v, 1, Len(v) - 1))
             x == v[Len(v)]
             n == Cardinality({i \in 1..Len(rest) : rest[i][1] <= x[1]})
         IN SubSeq(rest, 1, n) \o <<x>> \o SubSeq(rest, n + 1, Len(rest))

within_unsorted_periodic(self, point, radius, periodic) ==
    IF self.size = 0 THEN [err |-> "Ok", val |-> <<>>, calls |-> 0]
    ELSE LET c == within_impl(self, point, radius)
         IN IF c.err # "Ok" THEN c
            ELSE LET canonical_result == [c EXCEPT !.val = IntoPairs(@)]
                     images_to_check == ImagesToCheck(point, periodic, radius, 1)
                 IN WithinImages(self, images_to_check, radius, canonical_result)

within_periodic(self, point, radius, periodic) ==
    LET r == within_unsorted_periodic(self, point, radius, periodic)
    IN IF r.err # "Ok" THEN r ELSE [r EXCEPT !.val = SortByDistance(@)]

\* ------------------------------------------------------------------------
\* best_n_within.  evaluated is a BinaryHeap<T> of payloads, kept here in
\* ascending order, its top (the greatest payload) last.  The state of the
\* search is [pending, evaluated, calls, panic], panic for the unwrap of the
\* peek_mut of an empty heap.
\* ------------------------------------------------------------------------
RECURSIVE InsertPayload(_, _)
InsertPayload(h, x) ==
    IF h = <<>> THEN <<x>>
    ELSE IF h[Len(h)] <= x THEN Append(h, x)
    ELSE Append(InsertPayload(SubSeq(h, 1, Len(h) - 1), x), h[Len(h)])

\* the for loop of best_n_within_step without the replacement of the top: the
\* first max_qty payloads found within max_dist are kept
RECURSIVE BestNScanFirstFound(_, _, _, _, _, _, _)
BestNScanFirstFound(self, point, max_qty, max_dist, leaf, i, qs) ==
    IF qs.panic \/ i > Len(leaf.points) \/ i > Len(leaf.bucket) THEN qs
    ELSE LET element == [distance |-> get_distance(point, leaf.points[i], self.periodic),
                         element |-> leaf.bucket[i]]
             qs1 == [qs EXCEPT !.calls = @ + GetDistanceCalls(self.periodic)]
             qs2 == IF element.distance <= max_dist /\ Len(qs.evaluated) < max_qty
                    THEN [qs1 EXCEPT !.evaluated = InsertPayload(@, element.element)]
                    ELSE qs1
         IN BestNScanFirstFound(self, point, max_qty, max_dist, leaf, i + 1, qs2)

\* the for loop of best_n_within_step over the elements of a leaf
RECURSIVE BestNScan(_, _, _, _, _, _, _)
BestNScan(self, point, max_qty, max_dist, leaf, i, qs) ==
    IF qs.panic \/ i > Len(leaf.points) \/ i > Len(leaf.bucket) THEN qs
    ELSE LET element == [distance |-> get_distance(point, leaf.points[i], self.periodic),
                         element |-> leaf.bucket[i]]
             qs1 == [qs EXCEPT !.calls = @ + GetDistanceCalls(self.periodic)]
             qs2 == IF element.distance <= max_dist
                    THEN IF Len(qs.evaluated) < max_qty
                         THEN [qs1 EXCEPT !.evaluated = InsertPayload(@, element.element)]
                         ELSE IF qs.evaluated = <<>> THEN [qs1 EXCEPT !.panic = TRUE]
                         ELSE IF element.element < qs.evaluated[Len(qs.evaluated)]
                         THEN [qs1 EXCEPT !.evaluated =
                                  InsertPayload(SubSeq(@, 1, Len(@) - 1), element.element)]
                         ELSE qs1
                    ELSE qs1
         IN BestNScan(self, point, max_qty, max_dist, leaf, i + 1, qs2)

\* pending is a Vec: pop takes its last element
best_n_within_step(self, point, max_qty, max_dist, qs) ==
    LET top == qs.pending[Len(qs.pending)]
        pp == populate_pending(point, max_dist,
                               SubSeq(qs.pending, 1, Len(qs.pending) - 1),
                               top.element, qs.calls)
    IN BestNScan(self, point, max_qty, max_dist, pp[2], 1,
                 [qs EXCEPT !.pending = pp[1], !.calls = pp[3]])

\* the while loop of best_n_within and of best_n_within_into_iter
RECURSIVE BestNLoop(_, _, _, _, _)
BestNLoop(self, point, max_qty, radius, qs) ==
    IF qs.pending # <<>> /\ ~qs.panic
    THEN BestNLoop(self, point, max_qty, radius,
                   best_n_within_step(self, point, max_qty, radius, qs))
    ELSE qs

RootPendingBestN(self) ==
    [pending |-> <<[distance |-> 0, element |-> self]>>, evaluated |-> <<>>,
     calls |-> 0, panic |-> FALSE]

\* best_n_within: the payloads, in the order of the heap
best_n_within(self, point, radius, max_qty) ==
    IF self.size = 0 THEN [err |-> "Ok", val |-> <<>>, calls |-> 0]
    ELSE LET e == check_point(self, point)
         IN IF e # "Ok" THEN [err |-> e, val |-> <<>>, calls |-> 0]
            ELSE LET qs == BestNLoop(self, point, max_qty, radius, RootPendingBestN(self))
                 IN IF qs.panic THEN [err |-> "Panic", val |-> <<>>, calls |-> qs.calls]
                    ELSE [err |-> "Ok", val |-> qs.evaluated, calls |-> qs.calls]

\* best_n_within_into_iter: the payloads that the iterator returned yields; the
\* point and the size are not checked
best_n_within_into_iter(self, point, radius, max_qty) ==
    LET qs == BestNLoop(self, point, max_qty, radius, RootPendingBestN(self))
    IN IF qs.panic THEN [err |-> "Panic", val |-> <<>>, calls |-> qs.calls]
       ELSE [err |-> "Ok", val |-> qs.evaluated, calls |-> qs.calls]

\* ------------------------------------------------------------------------
\* The streaming iterator.  A NearestIter is [point, pending, evaluated,
\* periodic]; both heaps hold negated distances, so that the top of each is
\* its nearest element.  The model adds to the record the items yielded so
\* far and whether next has returned None.
\* ------------------------------------------------------------------------
NoIter ==
    [point |-> <<0, 0>>, pending |-> <<>>, evaluated |-> <<>>, periodic |-> None,
     yielded |-> <<>>, done |-> TRUE]

iter_nearest(self, point) ==
    LET e == check_point(self, point)
    IN IF e # "Ok" THEN [err |-> e, iter |-> NoIter]
       ELSE [err |-> "Ok",
             iter |-> [point |-> point,
                       pending |-> <<[distance |-> 0, element |-> self]>>,
                       evaluated |-> <<>>,
                       periodic |-> self.periodic,
                       yielded |-> <<>>,
                       done |-> FALSE]]

\* the while let of next: the descent to a leaf, every sibling pushed
RECURSIVE IterDescend(_, _, _, _)
IterDescend(point, pending, curr, calls) ==
    IF curr.leaf THEN <<pending, curr, calls>>
    ELSE LET candidate == IF belongs_in_left(curr, point) THEN curr.right ELSE curr.left
             next == IF belongs_in_left(curr, point) THEN curr.left ELSE curr.right
         IN IterDescend(point,
                Append(pending,
                       [distance |-> -distance_to_space(point, candidate.min_bounds,
                                                        candidate.max_bounds),
                        element |-> candidate]),
                next, calls + 1)

\* the while loop of next: <<the iterator, the calls of the metric made>>
RECURSIVE IterLoop(_, _)
IterLoop(it, calls) ==
    IF it.pending # <<>>
       /\ (IF it.evaluated = <<>> THEN PosInf ELSE -HeapPeek(it.evaluated).distance)
              >= -HeapPeek(it.pending).distance
    THEN LET d == IterDescend(it.point, HeapPop(it.pending),
                              HeapPeek(it.pending).element, calls)
             curr == d[2]
             n == Min2(Len(curr.points), Len(curr.bucket))
         IN IterLoop([it EXCEPT
                        !.pending = d[1],
                        !.evaluated = @ \o
                            [i \in 1..n |->
                                [distance |-> -get_distance(it.point, curr.points[i],
                                                            it.periodic),
                                 element |-> curr.bucket[i]]]],
                     d[3] + n * GetDistanceCalls(it.periodic))
    ELSE <<it, calls>>

\* NearestIter::next: the iterator after the call, the item returned (a
\* sequence of at most one pair, an Option) and the calls of the metric made
NearestIter_next(it) ==
    LET l == IterLoop(it, 0)
        it1 == l[1]
    IN IF it1.evaluated = <<>>
       THEN [iter |-> [it1 EXCEPT !.done = TRUE], item |-> <<>>, calls |-> l[2]]
       ELSE LET x == HeapPeek(it1.evaluated)
                item == <<-x.distance, x.element>>
            IN [iter |-> [it1 EXCEPT !.evaluated = HeapPop(@),
                                     !.yielded = Append(@, item)],
                item |-> <<item>>, calls |-> l[2]]

\* ------------------------------------------------------------------------
\* State
\* ------------------------------------------------------------------------
VARIABLES
    tree,      \* a KdTree constructed by with_per_node_capacity
    ptree,     \* a KdTree constructed by periodic_with_per_node_capacity
    op,        \* the last call: its name and arguments
    res,       \* what the call returned on tree
    pres,      \* what the call returned on ptree
    nadd,      \* number of successful adds on tree
    nrem,      \* sum of the values returned by remove on tree
    iter,      \* the NearestIter that iter_nearest returned on tree
    piter,     \* the NearestIter that iter_nearest returned on ptree
    gd         \* a call of the function get_distance: arguments and result

vars == <<tree, ptree, op, res, pres, nadd, nrem, iter, piter, gd>>

NoOp == [name |-> "new", point |-> <<0, 0>>, data |-> 0, num |-> 0, radius |-> 0]
NoRes == [err |-> "Ok", val |-> <<>>, removed |-> 0, calls |-> 0]

\* the result of a query: err, the (distance, payload) pairs of Ok (a sequence
\* of one pair for nearest_one) and the number of calls of the metric made
Result(r) == [err |-> r.err, val |-> r.val, removed |-> 0, calls |-> r.calls]
\* the result of add or remove: err and the number removed of Ok
MutResult(r) == [err |-> r.err, val |-> <<>>, removed |-> r.val, calls |-> 0]

\* no call of get_distance yet
NoGd == [a |-> <<0, 0>>, b |-> <<0, 0>>, periodic |-> None, min |-> 0, called |-> FALSE]

InitFrom(capacities, periods) ==
    /\ \E c \in capacities : \E per \in periods :
          /\ tree = NewTree(c, None)
          /\ ptree = NewTree(c, per)
    /\ op = NoOp
    /\ res = NoRes
    /\ pres = NoRes
    /\ nadd = 0
    /\ nrem = 0
    /\ iter = NoIter
    /\ piter = NoIter
    /\ gd = NoGd

InitWith(periods) == InitFrom(Capacities, periods)

Init == InitWith({L})

\* the queries take &self: they leave the trees as they are, so a behaviour
\* that goes on after a query reaches no tree that the behaviours without the
\* query do not reach.  A behaviour of the model is a sequence of calls of
\* the mutators followed by at most one query.
QueryNames == {"nearest", "nearest_periodic", "nearest_one", "nearest_one_periodic",
               "within", "within_unsorted", "within_periodic",
               "within_unsorted_periodic", "best_n_within", "best_n_within_into_iter"}
\* iter_nearest returns an iterator that borrows the tree
IterNames == {"iter_nearest", "next"}
Idle == op.name \notin QueryNames \cup IterNames

\* add(point, data), called on both trees
AddFrom(inputs, max_adds) ==
    \E in \in inputs :
        LET r == add(tree, in[1], in[2])
            pr == add(ptree, in[1], in[2])
        IN /\ Idle
           /\ nadd < max_adds
           /\ tree' = r.tree
           /\ ptree' = pr.tree
           /\ op' = [NoOp EXCEPT !.name = "add", !.point = in[1], !.data = in[2]]
           /\ res' = MutResult(r)
           /\ pres' = MutResult(pr)
           /\ nadd' = nadd + (IF r.err = "Ok" THEN 1 ELSE 0)
           /\ UNCHANGED <<nrem, iter, piter, gd>>

Add == AddFrom(MutInputs, MaxAdds)

\* remove(point, data), called on both trees
RemoveFrom(inputs) ==
    \E in \in inputs :
        LET r == remove(tree, in[1], in[2])
            pr == remove(ptree, in[1], in[2])
        IN /\ Idle
           /\ tree' = r.tree
           /\ ptree' = pr.tree
           /\ op' = [NoOp EXCEPT !.name = "remove", !.point = in[1], !.data = in[2]]
           /\ res' = MutResult(r)
           /\ pres' = MutResult(pr)
           /\ nrem' = nrem + r.val
           /\ UNCHANGED <<nadd, iter, piter, gd>>

Remove == RemoveFrom(MutInputs)

\* a query called on tree (result r) and, for the plain queries that have an
\* explicit-period variant, the plain query called on ptree (result pr)
Query(name, point, num, radius, r, pr) ==
    /\ Idle
    /\ op' = [NoOp EXCEPT !.name = name, !.point = point, !.num = num,
                          !.radius = radius]
    /\ res' = Result(r)
    /\ pres' = Result(pr)
    /\ UNCHANGED <<tree, ptree, nadd, nrem, iter, piter, gd>>

\* tree.nearest(point, num, &squared_euclidean)
NearestOf(P, N) ==
    \E point \in P : \E num \in N :
        Query("nearest", point, num, 0, nearest(tree, point, num), NoRes)

Nearest(P) == NearestOf(P, 0..MaxK)

\* tree.nearest_periodic(point, num, &squared_euclidean, &L)
NearestPeriodic(P) ==
    \E point \in P : \E num \in 0..MaxK :
        Query("nearest_periodic", point, num, 0,
              nearest_periodic(tree, point, num, L), NoRes)

\* tree.nearest_one(point, &squared_euclidean)
NearestOne(P) ==
    \E point \in P :
        Query("nearest_one", point, 0, 0, nearest_one(tree, point), NoRes)

\* tree.nearest_one_periodic(point, &squared_euclidean, &L)
NearestOnePeriodic(P) ==
    \E point \in P :
        Query("nearest_one_periodic", point, 0, 0,
              nearest_one_periodic(tree, point, L), NoRes)

\* tree.within(point, radius, &squared_euclidean)
WithinOf(P, R) ==
    \E point \in P : \E radius \in R :
        Query("within", point, 0, radius, within(tree, point, radius), NoRes)

Within(P) == WithinOf(P, Radii)

\* tree.within_unsorted(point, radius, &squared_euclidean)
WithinUnsorted(P) ==
    \E point \in P : \E radius \in Radii :
        Query("within_unsorted", point, 0, radius,
              within_unsorted(tree, point, radius), NoRes)

\* tree.within_periodic(point, radius, &squared_euclidean, &L)
WithinPeriodic(P) ==
    \E point \in P : \E radius \in Radii :
        Query("within_periodic", point, 0, radius,
              within_periodic(tree, point, radius, L), NoRes)

\* tree.within_unsorted_periodic(point, radius, &squared_euclidean, &L)
WithinUnsortedPeriodic(P) ==
    \E point \in P : \E radius \in Radii :
        Query("within_unsorted_periodic", point, 0, radius,
              within_unsorted_periodic(tree, point, radius, L), NoRes)

\* tree.nearest_periodic(point, num, metric, &period) and ptree.nearest(point,
\* num, metric), ptree constructed with that period
NearestBothWays ==
    \E point \in EquivPoints : \E num \in 0..MaxK :
        Query("nearest_periodic", point, num, 0,
              nearest_periodic(tree, point, num, ptree.periodic),
              nearest(ptree, point, num))

\* tree.nearest_one_periodic(point, metric, &period) and ptree.nearest_one(point,
\* metric)
NearestOneBothWays ==
    \E point \in EquivPoints :
        Query("nearest_one_periodic", point, 0, 0,
              nearest_one_periodic(tree, point, ptree.periodic),
              nearest_one(ptree, point))

\* tree.within_periodic(point, radius, metric, &period) and ptree.within(point,
\* radius, metric)
WithinBothWays ==
    \E point \in EquivPoints : \E radius \in EquivRadii :
        Query("within_periodic", point, 0, radius,
              within_periodic(tree, point, radius, ptree.periodic),
              within(ptree, point, radius))

\* tree.best_n_within(point, radius, max_qty, &squared_euclidean)
BestNWithin(P, R) ==
    \E point \in P : \E radius \in R : \E max_qty \in Quantities :
        Query("best_n_within", point, max_qty, radius,
              best_n_within(tree, point, radius, max_qty), NoRes)

\* tree.best_n_within_into_iter(point, radius, max_qty, &squared_euclidean),
\* collected
BestNWithinIntoIter(P, R) ==
    \E point \in P : \E radius \in R : \E max_qty \in Quantities :
        Query("best_n_within_into_iter", point, max_qty, radius,
              best_n_within_into_iter(tree, point, radius, max_qty), NoRes)

\* tree.iter_nearest(point, &squared_euclidean), and the same on ptree
IterNearest(P) ==
    \E point \in P :
        LET r == iter_nearest(tree, point)
            pr == iter_nearest(ptree, point)
        IN /\ Idle
           /\ op' = [NoOp EXCEPT !.name = "iter_nearest", !.point = point]
           /\ res' = Result([err |-> r.err, val |-> <<>>, calls |-> 0])
           /\ pres' = Result([err |-> pr.err, val |-> <<>>, calls |-> 0])
           /\ iter' = r.iter
           /\ piter' = pr.iter
           /\ UNCHANGED <<tree, ptree, nadd, nrem, gd>>

\* next() called on the iterators, until it returns None
IterNext ==
    LET n == NearestIter_next(iter)
        pn == NearestIter_next(piter)
    IN /\ op.name \in IterNames
       /\ ~iter.done \/ ~piter.done
       /\ op' = [op EXCEPT !.name = "next"]
       /\ IF iter.done THEN UNCHANGED <<iter, res>>
          ELSE /\ iter' = n.iter
               /\ res' = Result([err |-> "Ok", val |-> n.item, calls |-> n.calls])
       /\ IF piter.done THEN UNCHANGED <<piter, pres>>
          ELSE /\ piter' = pn.iter
               /\ pres' = Result([err |-> "Ok", val |-> pn.item, calls |-> pn.calls])
       /\ UNCHANGED <<tree, ptree, nadd, nrem, gd>>

\* the function get_distance called with the arguments drawn in InitGetDistance
GetDistance ==
    /\ ~gd.called
    /\ gd' = [gd EXCEPT !.min = get_distance(gd.a, gd.b, gd.periodic),
                        !.called = TRUE]
    /\ UNCHANGED <<tree, ptree, op, res, pres, nadd, nrem, iter, piter>>

Mutate == Add \/ Remove

\* the mutators alone
Next == Mutate
Spec == Init /\ [][Next]_vars

\* the function get_distance alone, on every pair of GdPoints, without period
\* and with each of Periods
InitGetDistance ==
    /\ tree = NewTree(1, None)
    /\ ptree = NewTree(1, L)
    /\ op = NoOp
    /\ res = NoRes
    /\ pres = NoRes
    /\ nadd = 0
    /\ nrem = 0
    /\ iter = NoIter
    /\ piter = NoIter
    /\ \E a \in GdPoints : \E b \in GdPoints : \E periodic \in {None} \cup Periods :
          gd = [NoGd EXCEPT !.a = a, !.b = b, !.periodic = periodic]
NextGetDistance == GetDistance
SpecGetDistance == InitGetDistance /\ [][NextGetDistance]_vars

\* add alone
NextAddOnly == Add
SpecAddOnly == Init /\ [][NextAddOnly]_vars

\* the mutators alone, ptree constructed with any of the periodic vectors
SpecPeriodicMut == InitWith(Periods) /\ [][Next]_vars

\* the mutators and one family of queries each
NextNearest == Mutate \/ Nearest(QueryPoints)
SpecNearest == Init /\ [][NextNearest]_vars

NextNearestPeriodic == Mutate \/ NearestPeriodic(QueryPoints)
SpecNearestPeriodic == Init /\ [][NextNearestPeriodic]_vars

NextNearestOne == Mutate \/ NearestOne(QueryPoints) \/ NearestOnePeriodic(QueryPoints)
SpecNearestOne == Init /\ [][NextNearestOne]_vars

NextWithin == Mutate \/ Within(QueryPoints) \/ WithinUnsorted(QueryPoints)
SpecWithin == Init /\ [][NextWithin]_vars

NextWithinPeriodic ==
    Mutate \/ WithinPeriodic(QueryPoints) \/ WithinUnsortedPeriodic(QueryPoints)
SpecWithinPeriodic == Init /\ [][NextWithinPeriodic]_vars

\* the mutators and the three list queries with an explicit period
NextPeriodicLists ==
    \/ Mutate
    \/ NearestPeriodic(EquivPoints)
    \/ WithinPeriodic(EquivPoints)
    \/ WithinUnsortedPeriodic(EquivPoints)
SpecPeriodicLists == Init /\ [][NextPeriodicLists]_vars

\* the queries called with a point that is not finite
NextNonFinite ==
    \/ Mutate
    \/ Nearest(NonFinite) \/ NearestPeriodic(NonFinite)
    \/ NearestOne(NonFinite) \/ NearestOnePeriodic(NonFinite)
    \/ Within(NonFinite) \/ WithinUnsorted(NonFinite)
    \/ WithinPeriodic(NonFinite) \/ WithinUnsortedPeriodic(NonFinite)
SpecNonFinite == Init /\ [][NextNonFinite]_vars

\* a tree constructed with a periodic vector next to a tree constructed
\* without one, the same calls made on both
NextPeriodicTree == Mutate \/ NearestBothWays \/ NearestOneBothWays \/ WithinBothWays
SpecPeriodicTree == InitWith(Periods) /\ [][NextPeriodicTree]_vars

\* the mutators and the streaming iterator
NextIter == Mutate \/ IterNearest(QueryPoints) \/ IterNext
SpecIter == Init /\ [][NextIter]_vars

\* the mutators and best_n_within
NextBestN ==
    Mutate \/ BestNWithin(BestPoints, BestRadii) \/ BestNWithinIntoIter(BestPoints, BestRadii)
SpecBestN == Init /\ [][NextBestN]_vars

\* the mutators and every query that takes no period
NextPlainQueries ==
    \/ Mutate
    \/ NearestOne(EquivPoints) \/ Nearest(EquivPoints)
    \/ Within(EquivPoints) \/ WithinUnsorted(EquivPoints)
    \/ BestNWithin(BestPoints, BestRadii)
    \/ IterNearest(EquivPoints) \/ IterNext
SpecPlainQueries == Init /\ [][NextPlainQueries]_vars

\* tests/count_dist.rs: the four points added in order to a tree of capacity
\* 2, and its queries
AddTestPoint ==
    AddFrom(IF nadd < Len(TestPoints) THEN {TestPoints[nadd + 1]} ELSE {}, Len(TestPoints))
NextCountDist ==
    \/ AddTestPoint
    \/ NearestOf(TestQueryPoints, TestNums)
    \/ WithinOf(TestQueryPoints, TestRadii)
    \/ IterNearest(TestQueryPoints) \/ IterNext
SpecCountDist == InitFrom(TestCapacities, {L}) /\ [][NextCountDist]_vars

\* the mutators called with points that fall on split values
NextSplitTies == AddFrom(TieInputs, MaxAdds) \/ RemoveFrom(TieInputs)
SpecSplitTies == Init /\ [][NextSplitTies]_vars

\* ------------------------------------------------------------------------
\* What the claims are stated with
\* ------------------------------------------------------------------------
\* the (point, payload) pairs stored in the leaves beneath t
RECURSIVE Stored(_)
Stored(t) ==
    IF t.leaf THEN [i \in 1..Min2(Len(t.points), Len(t.bucket)) |-> <<t.points[i], t.bucket[i]>>]
    ELSE Stored(t.left) \o Stored(t.right)

Count(v, x) == Cardinality({i \in DOMAIN v : v[i] = x})
Range(v) == {v[i] : i \in DOMAIN v}
SameMultiset(v, w) == \A x \in Range(v) \cup Range(w) : Count(v, x) = Count(w, x)
SubMultiset(v, w) == \A x \in Range(v) : Count(v, x) <= Count(w, x)
NonDecreasing(v) == \A i \in 1..(Len(v) - 1) : v[i][1] <= v[i + 1][1]

Abs(x) == IF x < 0 THEN -x ELSE x

\* the minimum-image distance on the torus of period per
MinImage(a, b, per) ==
    SumTo([i \in Dims |->
             LET d == Abs(a[i] - b[i])
                 m == Min2(d, per[i] - d)
             IN m * m], K)

\* brute force: <<distance, payload>> of every stored pair, by ascending distance
BruteForce(t, q, Dist(_, _)) ==
    SortSeq([i \in DOMAIN Stored(t) |-> <<Dist(q, Stored(t)[i][1]), Stored(t)[i][2]>>],
            LAMBDA x, y : x[1] < y[1])

Plain(a, b) == squared_euclidean(a, b)
Torus(a, b) == MinImage(a, b, L)

AllInBox(t, per) == \A i \in DOMAIN Stored(t) : InBox(Stored(t)[i][1], per)
IsFinite(point) == \A i \in Dims : is_finite(point[i])

\* C1: on a tree without periodic vector, nearest(q, k) returns min(k, size)
\* entries, their distances are, in order, the min(k, size) smallest distances
\* from q to the stored points, and each entry is the distance and payload of
\* a stored pair.
C1_NearestIsBruteForce ==
    (op.name = "nearest" /\ IsFinite(op.point)) =>
        LET bf == BruteForce(tree, op.point, Plain)
            n == Min2(op.num, tree.size)
        IN /\ res.err = "Ok"
           /\ Len(res.val) = n
           /\ \A i \in 1..n : res.val[i][1] = bf[i][1]
           /\ \A i \in 1..n : res.val[i] \in Range(bf)

\* C1 happens: one of three stored points is asked for, and the search finds
\* it with two calls of the metric, the other two points being pruned
C1_Witness ==
    /\ op.name = "nearest" /\ op.num = 1
    /\ tree.size = 3 /\ ~tree.leaf
    /\ Len(res.val) = 1 /\ res.calls = 2

\* C2: on a tree without periodic vector, within(q, r) returns the stored
\* pairs at distance <= r, each once, by non-decreasing distance, and
\* within_unsorted returns the same multiset.
C2_WithinIsBruteForce ==
    (op.name \in {"within", "within_unsorted"} /\ IsFinite(op.point)) =>
        LET bf == BruteForce(tree, op.point, Plain)
            inside == SelectSeq(bf, LAMBDA x : x[1] <= op.radius)
        IN /\ res.err = "Ok"
           /\ SameMultiset(res.val, inside)
           /\ op.name = "within" => NonDecreasing(res.val)

\* C2 happens: a radius query returns two pairs, one of them at distance
\* exactly r, and leaves a stored pair out
C2_Witness ==
    /\ op.name = "within" /\ op.radius > 0
    /\ tree.size = 3 /\ Len(res.val) = 2
    /\ res.val[1][1] < op.radius /\ res.val[2][1] = op.radius

\* C3: with the stored points and q in [0, L), nearest_periodic(q, k, L)
\* returns the min(k, size) stored pairs of smallest minimum-image distance,
\* by ascending distance, each stored pair at most once.
C3_NearestPeriodicIsBruteForce ==
    (op.name = "nearest_periodic" /\ InBox(op.point, L) /\ AllInBox(tree, L)) =>
        LET bf == BruteForce(tree, op.point, Torus)
            n == Min2(op.num, tree.size)
        IN /\ res.err = "Ok"
           /\ Len(res.val) = n
           /\ \A i \in 1..n : res.val[i][1] = bf[i][1]
           /\ SubMultiset(res.val, bf)

\* C4: with the stored points and q in [0, L), every stored pair whose
\* minimum-image distance to q is <= r is in the result of within_periodic
\* and of within_unsorted_periodic, with its minimum-image distance.
C4_WithinPeriodicComplete ==
    (op.name \in {"within_periodic", "within_unsorted_periodic"}
        /\ InBox(op.point, L) /\ AllInBox(tree, L)) =>
        LET bf == BruteForce(tree, op.point, Torus)
            inside == SelectSeq(bf, LAMBDA x : x[1] <= op.radius)
        IN /\ res.err = "Ok"
           /\ SubMultiset(inside, res.val)

\* C5: on a tree that is not empty, with the stored points and q in [0, L),
\* nearest_one_periodic(q, L) returns the least minimum-image distance from q
\* to a stored point, and the payload of a stored pair at that distance.
C5_NearestOnePeriodicIsMin ==
    (op.name = "nearest_one_periodic" /\ tree.size > 0
        /\ InBox(op.point, L) /\ AllInBox(tree, L)) =>
        LET bf == BruteForce(tree, op.point, Torus)
        IN /\ res.err = "Ok"
           /\ Len(res.val) = 1
           /\ res.val[1][1] = bf[1][1]
           /\ res.val[1] \in Range(bf)

\* C5 happens: the nearest pair is found from an image of q, a different pair
\* being the nearest to q itself
C5_Witness ==
    /\ op.name = "nearest_one_periodic" /\ tree.size >= 2 /\ res.err = "Ok"
    /\ res.val[1][1] < BruteForce(tree, op.point, Plain)[1][1]

Distances(v) == [i \in DOMAIN v |-> v[i][1]]

\* C6: the explicit-period query on the tree constructed without periodic
\* vector returns what the plain query returns on the tree constructed with
\* that vector, after the same adds of points of [0, L) and for q in [0, L):
\* the same error or, in order, the same distances.
C6_ExplicitPeriodIsPeriodicTree ==
    (op.name \in {"nearest_periodic", "within_periodic", "nearest_one_periodic"}
        /\ ptree.periodic = L
        /\ InBox(op.point, L) /\ AllInBox(tree, L) /\ Stored(tree) = Stored(ptree)) =>
        /\ res.err = pres.err
        /\ res.err = "Ok" =>
              Distances(res.val) = Distances(pres.val)

\* C7: on a tree constructed with periodic vector L, add and remove return
\* PeriodicOutOfBounds exactly when the finite point they are given has a
\* component outside [0, L_i).
C7_OutOfBoundsIffOutside ==
    (op.name \in {"add", "remove"} /\ IsFinite(op.point)) =>
        (pres.err = "PeriodicOutOfBounds" <=> ~InBox(op.point, ptree.periodic))

EntryPoints == {"add", "remove"} \cup QueryNames

\* C8: a call of add, remove or a query with a point that has a non-finite
\* coordinate reports NonFiniteCoordinate, whatever the tree holds.
C8_NonFiniteIsReported ==
    (op.name \in EntryPoints /\ ~IsFinite(op.point)) => res.err = "NonFiniteCoordinate"

\* C9: a call of add or remove that returns an error leaves the tree as it was.
C9_FailedMutatorChangesNothing ==
    [][(op'.name \in {"add", "remove"}) =>
          /\ res'.err # "Ok" => tree' = tree
          /\ pres'.err # "Ok" => ptree' = ptree]_vars

\* C9 happens: remove is given a point that is not finite, on a tree of three
\* pairs that has split
C9_Witness ==
    /\ op.name = "remove" /\ res.err = "NonFiniteCoordinate"
    /\ ~tree.leaf /\ tree.size = 3

\* size(n) is the number of pairs stored beneath n, for n and every node beneath
RECURSIVE SizesAgree(_)
SizesAgree(t) ==
    /\ t.size = Len(Stored(t))
    /\ t.leaf \/ (/\ t.size = t.left.size + t.right.size
                  /\ SizesAgree(t.left)
                  /\ SizesAgree(t.right))

\* C10: size() is the number of successful adds minus the sum of the values
\* returned by remove, and the size of every node is the number of pairs
\* stored beneath it.
C10_SizeAccounting ==
    /\ tree.size = nadd - nrem
    /\ SizesAgree(tree)
    /\ SizesAgree(ptree)

\* C10 happens: a remove takes two pairs out of a tree that has split
C10_Witness ==
    /\ op.name = "remove" /\ res.removed = 2 /\ ~tree.leaf /\ nadd = 3 /\ tree.size = 1

\* no leaf beneath t holds more pairs than its capacity
RECURSIVE LeavesWithinCapacity(_)
LeavesWithinCapacity(t) ==
    IF t.leaf THEN t.size <= t.capacity /\ Len(t.points) <= t.capacity
    ELSE LeavesWithinCapacity(t.left) /\ LeavesWithinCapacity(t.right)

\* C11: after an add has returned, no leaf of the tree holds strictly more
\* pairs than its capacity, points with identical coordinates included.
C11_LeafWithinCapacity ==
    (op.name = "add" /\ res.err = "Ok") => LeavesWithinCapacity(tree)

\* beneath every stem of t with split dimension d and split value s, the
\* points of the left child have p[d] < s and those of the right p[d] >= s
RECURSIVE SplitInvariant(_)
SplitInvariant(t) ==
    t.leaf \/
        (/\ \A i \in DOMAIN Stored(t.left) :
               Stored(t.left)[i][1][t.split_dimension] < t.split_value
         /\ \A i \in DOMAIN Stored(t.right) :
               Stored(t.right)[i][1][t.split_dimension] >= t.split_value
         /\ SplitInvariant(t.left)
         /\ SplitInvariant(t.right))

\* C12: after any sequence of add and remove, every point beneath the left
\* child of a stem (d, s) has p[d] < s and every point beneath its right child
\* has p[d] >= s, a point with p[d] = s being on the right.
C12_SplitInvariant ==
    SplitInvariant(tree) /\ SplitInvariant(ptree)

\* C12 happens: the leaf of capacity 2 has split on its third add, and the
\* point added lies on the split value and is in the right child
C12_Witness ==
    /\ op.name = "add" /\ tree.size = 3
    /\ ~tree.leaf /\ tree.left.leaf /\ tree.left.capacity = 2
    /\ op.point[tree.split_dimension] = tree.split_value
    /\ \E i \in DOMAIN Stored(tree.right) : Stored(tree.right)[i][1] = op.point

\* every point stored beneath t lies within the bounds of t, and so for every
\* node beneath t
RECURSIVE Contained(_)
Contained(t) ==
    /\ \A i \in DOMAIN Stored(t) : \A d \in Dims :
          /\ t.min_bounds[d] <= Stored(t)[i][1][d]
          /\ Stored(t)[i][1][d] <= t.max_bounds[d]
    /\ t.leaf \/ (Contained(t.left) /\ Contained(t.right))

\* u has the nodes of t, and the bounds of each node of u include those of
\* the same node of t
RECURSIVE NotShrunk(_, _)
NotShrunk(t, u) ==
    /\ t.leaf = u.leaf
    /\ \A d \in Dims : u.min_bounds[d] <= t.min_bounds[d]
                       /\ t.max_bounds[d] <= u.max_bounds[d]
    /\ t.leaf \/ (NotShrunk(t.left, u.left) /\ NotShrunk(t.right, u.right))

\* C13: after every call of add or remove each stored point lies within the
\* bounds of the leaf that holds it and of every node above it, and a call of
\* remove leaves the bounds of every node at least as wide as they were.
C13_BoundsContainPoints ==
    [][/\ Contained(tree') /\ Contained(ptree')
       /\ op'.name = "remove" =>
             NotShrunk(tree, tree') /\ NotShrunk(ptree, ptree')]_vars

\* C13 happens: a remove has taken out of a tree that has split the only pair
\* on the upper side of the root's bounds, which are as wide as before
C13_Witness ==
    /\ op.name = "remove" /\ res.removed = 1 /\ ~tree.leaf /\ tree.size = 2
    /\ \E d \in Dims :
          /\ op.point[d] = tree.max_bounds[d]
          /\ \A i \in DOMAIN Stored(tree) : Stored(tree)[i][1][d] < tree.max_bounds[d]

\* v without the elements equal to x
Without(v, x) == SelectSeq(v, LAMBDA y : y # x)

\* what remove(point, data) has to do to tree t: u is the tree after the call
\* and r its result
RemovesEveryMatch(t, u, r, point, data) ==
    LET x == <<point, data>>
    IN /\ r.removed = Count(Stored(t), x)
       /\ SameMultiset(Stored(u), Without(Stored(t), x))
       /\ remove(u, point, data).err = "Ok"
       /\ remove(u, point, data).val = 0

\* C14: a call remove(point, payload) that succeeds takes out of the tree every
\* stored pair equal to (point, payload), returns their number and leaves
\* every other pair stored; the same call made again returns 0.
C14_RemoveTakesEveryMatch ==
    [][(op'.name = "remove" /\ res'.err = "Ok") =>
          /\ RemovesEveryMatch(tree, tree', res', op'.point, op'.data)
          /\ pres'.err = "Ok" =>
                RemovesEveryMatch(ptree, ptree', pres', op'.point, op'.data)]_vars

\* C14 happens: remove has taken one pair out of a tree that has split, and a
\* pair at the same point with another payload and a pair with the same
\* payload at another point are still stored
C14_Witness ==
    /\ op.name = "remove" /\ res.removed = 1 /\ ~tree.leaf /\ tree.size = 2
    /\ \E i \in DOMAIN Stored(tree) :
          Stored(tree)[i][1] = op.point /\ Stored(tree)[i][2] # op.data
    /\ \E i \in DOMAIN Stored(tree) :
          Stored(tree)[i][1] # op.point /\ Stored(tree)[i][2] = op.data

\* C15: nearest(q, k) with k greater than the size returns as many results as
\* the tree holds pairs, and with k = 0 it returns an empty list and has not
\* called the metric.
C15_NearestClamps ==
    (op.name = "nearest" /\ IsFinite(op.point)) =>
        /\ res.err = "Ok"
        /\ op.num > tree.size => Len(res.val) = tree.size
        /\ op.num = 0 => (Len(res.val) = 0 /\ res.calls = 0)

\* C15 happens: nearest is called with k = 0 on a tree of three pairs that has
\* split
C15_Witness ==
    /\ op.name = "nearest" /\ op.num = 0 /\ res.err = "Ok"
    /\ ~tree.leaf /\ tree.size = 3

\* the items that an exhausted iterator it over t has yielded are as many as
\* t holds pairs, by non-decreasing distance, and their distances are, position
\* by position, those of nearest(q, size())
IterIsNearest(t, it) ==
    LET n == nearest(t, it.point, t.size)
    IN /\ Len(it.yielded) = t.size
       /\ NonDecreasing(it.yielded)
       /\ n.err = "Ok"
       /\ Distances(it.yielded) = Distances(n.val)

\* C16: once next() has returned None, the items that iter_nearest(q) has
\* yielded are size() items by non-decreasing distance, with the distances
\* that nearest(q, size()) returns, on every tree reached by add and remove.
C16_IterIsNearest ==
    (op.name = "next" /\ iter.done /\ piter.done) =>
        IterIsNearest(tree, iter) /\ IterIsNearest(ptree, piter)

\* the same on the tree constructed without a periodic vector alone
IterIsNearestPlain ==
    (op.name = "next" /\ iter.done) => IterIsNearest(tree, iter)

\* C17: with a finite query point, nearest_one returns Err(Empty) exactly when
\* size() is 0 and a result otherwise; on a tree with size() = 0, nearest,
\* within, within_unsorted and best_n_within return Ok with an empty result,
\* iter_nearest returns an iterator, and its next() returns None.
C17_EmptyOnlyFromNearestOne ==
    IsFinite(op.point) =>
        /\ op.name = "nearest_one" =>
              /\ res.err = "Empty" <=> tree.size = 0
              /\ tree.size > 0 => (res.err = "Ok" /\ Len(res.val) = 1)
        /\ (op.name \in {"nearest", "within", "within_unsorted", "best_n_within"}
               /\ tree.size = 0) =>
              (res.err = "Ok" /\ Len(res.val) = 0)
        /\ (op.name = "iter_nearest" /\ tree.size = 0) => res.err = "Ok"
        /\ (op.name = "next" /\ tree.size = 0) =>
              (res.err = "Ok" /\ Len(res.val) = 0 /\ iter.done /\ Len(iter.yielded) = 0)

\* C17 happens: within is called on a tree that has split and from which every
\* pair has been removed since
C17_Witness ==
    /\ op.name = "within" /\ res.err = "Ok"
    /\ ~tree.leaf /\ tree.size = 0 /\ nrem = 3

\* the payloads of the stored pairs of t within radius r of q, ascending
PayloadsWithin(t, q, r) ==
    LET inside == SelectSeq(BruteForce(t, q, Plain), LAMBDA x : x[1] <= r)
    IN SortSeq([i \in DOMAIN inside |-> inside[i][2]], LAMBDA x, y : x < y)

\* C18: for max_qty >= 1, best_n_within(q, r, max_qty) returns, as a
\* multiset, the min(max_qty, m) smallest payloads of the m stored pairs at
\* distance <= r, and best_n_within_into_iter yields the same multiset.
C18_BestNWithinSmallestPayloads ==
    (op.name \in {"best_n_within", "best_n_within_into_iter"}
        /\ op.num >= 1 /\ IsFinite(op.point)) =>
        LET expected == Take(PayloadsWithin(tree, op.point, op.radius), op.num)
        IN /\ res.err = "Ok"
           /\ Len(res.val) = Len(expected)
           /\ SameMultiset(res.val, expected)

\* C18 happens: of three pairs within the radius one is asked for, and the
\* payload returned is the smallest one although a pair with a greater payload
\* is the nearest
C18_Witness ==
    /\ op.name = "best_n_within" /\ op.num = 1 /\ tree.size = 3 /\ ~tree.leaf
    /\ Len(PayloadsWithin(tree, op.point, op.radius)) = 3
    /\ res.val = <<0>>
    /\ LET bf == BruteForce(tree, op.point, Plain)
       IN bf[1][2] = 1 /\ bf[1][1] < bf[2][1]

RECURSIVE CapacityOf(_)
CapacityOf(t) == IF t.leaf THEN t.capacity ELSE CapacityOf(t.left)

AllIdentical(v) == \A i \in DOMAIN v : v[i][1] = v[1][1]

\* C20: on a tree of capacity c on which only add has been called, after
\* n <= c successful adds the root is a leaf and size() is n, and after c + 1
\* adds of points that are not all identical the root is a stem and size() is
\* c + 1.
C20_LeafUntilCapacity ==
    LET c == CapacityOf(tree)
    IN /\ nadd <= c => (is_leaf(tree) /\ tree.size = nadd)
       /\ (nadd = c + 1 /\ ~AllIdentical(Stored(tree))) =>
             (~is_leaf(tree) /\ tree.size = c + 1)

\* C20 happens: the third add to a tree of capacity 2, of a point that differs
\* from the two stored ones, which are identical, has made the root a stem
C20_Witness ==
    /\ op.name = "add" /\ res.err = "Ok" /\ nadd = 3 /\ ~is_leaf(tree)
    /\ CapacityOf(tree) = 2 /\ tree.size = 3
    /\ Cardinality({Stored(tree)[i][1] : i \in DOMAIN Stored(tree)}) = 2

\* C21: on a tree without periodic vector that is not empty, nearest_one(q)
\* returns the distance of the first entry of nearest(q, 1), which is the
\* least distance from q to a stored point, and the payload of a stored pair
\* at that distance.
C21_NearestOneIsNearestFirst ==
    (op.name = "nearest_one" /\ tree.size > 0 /\ IsFinite(op.point)) =>
        LET bf == BruteForce(tree, op.point, Plain)
            n == nearest(tree, op.point, 1)
        IN /\ res.err = "Ok" /\ n.err = "Ok"
           /\ Len(res.val) = 1 /\ Len(n.val) = 1
           /\ res.val[1][1] = n.val[1][1]
           /\ res.val[1][1] = bf[1][1]
           /\ res.val[1] \in Range(bf)

\* C21 happens: nearest_one is called on a tree of three pairs that has split,
\* for a point that is not stored, and the nearest pair is not the first added
C21_Witness ==
    /\ op.name = "nearest_one" /\ res.err = "Ok"
    /\ tree.size = 3 /\ ~tree.leaf
    /\ res.val[1][1] > 0
    /\ res.val[1][1] < BruteForce(tree, op.point, Plain)[2][1]

\* C22: in nearest_one the cutoff is best_dist: once a point at distance
\* best_dist has been found, no leaf whose bounds lie strictly farther from the
\* query point than best_dist is visited, and none of its points is passed to
\* the metric.
C22_NearestOneCutoff ==
    (op.name = "nearest_one" /\ res.err = "Ok") =>
        LET bs == NearestOneLoop(tree, op.point, RootPendingOne(tree))
        IN \A i \in 1..Len(bs.visited) :
               bs.visited[i].found => bs.visited[i].bound <= bs.visited[i].best_dist

\* the metric values of the 3^K translations of a by -1, 0 or +1 period on
\* each axis
Translations(a, per) ==
    {[i \in Dims |-> a[i] + f[i] * per[i]] : f \in [Dims -> {-1, 0, 1}]}
ImageDistances(a, b, per) == {squared_euclidean(t, b) : t \in Translations(a, per)}

\* C23: for a and b in [0, L) and the squared-Euclidean metric,
\* get_distance(a, b, metric, Some(L)) is the sum over the axes of
\* min(|a_i - b_i|, L_i - |a_i - b_i|)^2, which is the least metric value over
\* the 3^K translations of a; with None it is metric(a, b).
C23_GetDistanceIsMinImage ==
    gd.called =>
        IF gd.periodic = None THEN gd.min = squared_euclidean(gd.a, gd.b)
        ELSE (InBox(gd.a, gd.periodic) /\ InBox(gd.b, gd.periodic)) =>
                 /\ gd.min = MinImage(gd.a, gd.b, gd.periodic)
                 /\ gd.min \in ImageDistances(gd.a, gd.b, gd.periodic)
                 /\ \A d \in ImageDistances(gd.a, gd.b, gd.periodic) : gd.min <= d

\* C23 happens: get_distance has been called with a period that is not a
\* cube, on two points of the box that are nearer across both boundaries
C23_Witness ==
    /\ gd.called /\ gd.periodic = <<8, 6>>
    /\ InBox(gd.a, gd.periodic) /\ InBox(gd.b, gd.periodic)
    /\ gd.min < squared_euclidean(gd.a, gd.b)
    /\ \A i \in Dims : 2 * Abs(gd.a[i] - gd.b[i]) > gd.periodic[i]

\* C24: with a period L the initial upper bound L.L of get_distance is
\* replaced by the first candidate translation, so for every pair of finite
\* points the returned value is the metric value of one of the 3^K
\* translations of a, their minimum, and never the initial bound itself.
C24_GetDistanceIsSomeImage ==
    (gd.called /\ gd.periodic # None) =>
        LET first == squared_euclidean([i \in Dims |-> gd.a[i] - gd.periodic[i]], gd.b)
            bound == SumTo([i \in Dims |-> gd.periodic[i] * gd.periodic[i]], K)
        IN /\ first <= bound
           /\ gd.min \in ImageDistances(gd.a, gd.b, gd.periodic)
           /\ \A d \in ImageDistances(gd.a, gd.b, gd.periodic) : gd.min <= d

\* the leaves beneath t
RECURSIVE Leaves(_)
Leaves(t) == IF t.leaf THEN {t} ELSE Leaves(t.left) \cup Leaves(t.right)

\* the leaf t as add_to_bucket(point, data) has it when it tests
\* self.size > cap: extended, with the pair pushed and counted
BeforeSplit(t, point, data) ==
    LET t1 == extend(t, point)
    IN [t1 EXCEPT !.points = Append(@, point),
                  !.bucket = Append(@, data),
                  !.size = @ + 1]

\* the leaves that add_to_bucket hands to split, from the leaves beneath t and
\* the finite pairs of inputs
Splitting(t, inputs) ==
    {t2 \in {BeforeSplit(n, in[1], in[2]) :
                 n \in Leaves(t), in \in {x \in inputs : IsFinite(x[1])}} :
        t2.size > t2.capacity}

\* every node beneath t has the periodic vector per
RECURSIVE PeriodicBeneath(_, _)
PeriodicBeneath(t, per) ==
    /\ t.periodic = per
    /\ t.leaf \/ (PeriodicBeneath(t.left, per) /\ PeriodicBeneath(t.right, per))

\* every leaf beneath t has the capacity c
CapacityBeneath(t, c) == \A n \in Leaves(t) : n.capacity = c

\* split leaves size, bounds and periodic of t2 as they are, keeps the pairs
\* beneath it, and gives both children its capacity and periodic vector
SplitFrame(t2) ==
    LET s == split(t2)
    IN /\ s.size = t2.size
       /\ s.min_bounds = t2.min_bounds
       /\ s.max_bounds = t2.max_bounds
       /\ s.periodic = t2.periodic
       /\ SameMultiset(Stored(s), Stored(t2))
       /\ CapacityBeneath(s, t2.capacity)
       /\ PeriodicBeneath(s, t2.periodic)

\* C25: a leaf split changes only the content of the node: its size, bounds
\* and periodic vector are unchanged, the multiset of pairs beneath it is
\* unchanged, and both children carry the capacity and the periodic vector of
\* the parent.
C25_SplitFrame ==
    /\ \A t2 \in Splitting(tree, MutInputs) : SplitFrame(t2)
    /\ \A t2 \in Splitting(ptree, MutInputs) : SplitFrame(t2)

\* C25 happens: an add has split the root leaf of the tree with a periodic
\* vector, and one of its leaves, of capacity 2 and full, splits into a stem
\* on a further add
C25_Witness ==
    /\ op.name = "add" /\ ~ptree.leaf /\ ptree.periodic = L
    /\ \E t2 \in Splitting(ptree, MutInputs) :
          t2.capacity = 2 /\ ~split(t2).leaf

\* in every leaf beneath t, points and bucket have the length that size says
LeavesParallel(t) ==
    \A n \in Leaves(t) : Len(n.points) = n.size /\ Len(n.bucket) = n.size

\* what a call that succeeded has to leave of the pairing: t is the tree
\* before, u the tree after
PairingKept(t, u, o) ==
    /\ LeavesParallel(u)
    /\ o.name = "add" =>
          SameMultiset(Stored(u), Append(Stored(t), <<o.point, o.data>>))
    /\ o.name = "remove" =>
          SameMultiset(Stored(u), Without(Stored(t), <<o.point, o.data>>))

\* C26: in every leaf the points and the payloads are sequences of the same
\* length, the size of the leaf, and the payload at position i is the one
\* that was added with the point at position i; add, the redistribution of a
\* split and the swap-with-last deletion of remove keep it so, and remove
\* never indexes past the end.
C26_ParallelSequences ==
    [][/\ (op'.name \in {"add", "remove"} /\ res'.err = "Ok") =>
             PairingKept(tree, tree', op')
       /\ (op'.name \in {"add", "remove"} /\ pres'.err = "Ok") =>
             PairingKept(ptree, ptree', op')]_vars

\* C26 happens: after a split redistributed the pairs, remove has taken one
\* pair out of a leaf of capacity 2 that held two points, and the pair left
\* has another point and another payload
C26_Witness ==
    /\ op.name = "remove" /\ res.removed = 1 /\ ~tree.leaf
    /\ \E n \in Leaves(tree) :
          /\ n.size = 1 /\ n.capacity = 2
          /\ n.min_bounds # n.max_bounds
          /\ n.points[1] # op.point /\ n.bucket[1] # op.data

\* the number of entries of v, pairs or results, whose payload is data
WithPayload(v, data) == Cardinality({i \in DOMAIN v : v[i][2] = data})

\* C27: the result of nearest_periodic, within_periodic and
\* within_unsorted_periodic never contains the same stored pair more than
\* once, so within_periodic returns at most size() entries.
C27_PeriodicNoDuplicates ==
    (op.name \in {"nearest_periodic", "within_periodic", "within_unsorted_periodic"}
        /\ res.err = "Ok") =>
        /\ \A i \in DOMAIN res.val :
              WithPayload(res.val, res.val[i][2]) <= WithPayload(Stored(tree), res.val[i][2])
        /\ op.name = "within_periodic" => Len(res.val) <= tree.size

\* every leaf beneath t that holds more pairs than its capacity holds pairs
\* of one point only
OverfullLeavesIdentical(t) ==
    \A n \in Leaves(t) :
        Len(n.points) > n.capacity => \A i \in DOMAIN n.points : n.points[i] = n.points[1]

\* C28: after any add has returned, every leaf that holds more pairs than its
\* capacity holds only pairs whose points are identical on every axis; a leaf
\* that holds two points that differ never holds more than capacity pairs.
C28_OverfullOnlyIdentical ==
    (op.name = "add" /\ res.err = "Ok") =>
        OverfullLeavesIdentical(tree) /\ OverfullLeavesIdentical(ptree)

\* C28 happens: on a tree from which pairs have been removed, an add has left
\* a leaf of capacity 1 beneath a stem with two pairs, of one point
C28_Witness ==
    /\ op.name = "add" /\ res.err = "Ok" /\ ~tree.leaf /\ nrem > 0
    /\ \E n \in Leaves(tree) :
          /\ n.capacity = 1 /\ Len(n.points) = 2
          /\ n.points[1] = n.points[2]

\* the bounds of the leaf t are the bounding box of its points
ExactBounds(t) ==
    \A d \in Dims :
        /\ \E i \in DOMAIN t.points : t.points[i][d] = t.min_bounds[d]
        /\ \E i \in DOMAIN t.points : t.points[i][d] = t.max_bounds[d]
        /\ \A i \in DOMAIN t.points :
              t.min_bounds[d] <= t.points[i][d] /\ t.points[i][d] <= t.max_bounds[d]

\* the split of the leaf t2 on dimension d: the split value lies above the
\* lower bound and not above the upper one, and each child gets a pair and
\* fewer pairs than t2 holds
SplitsInTwo(t2, d) ==
    LET min == t2.min_bounds[d]
        max == t2.max_bounds[d]
        split_value == SplitValue(min, max)
        lower == {i \in DOMAIN t2.points : t2.points[i][d] < split_value}
        upper == {i \in DOMAIN t2.points : ~(t2.points[i][d] < split_value)}
    IN /\ min < split_value /\ split_value <= max
       /\ Cardinality(lower) >= 1 /\ Cardinality(upper) >= 1
       /\ Cardinality(lower) < t2.size /\ Cardinality(upper) < t2.size
       /\ ~split(t2).leaf
       /\ split(t2).split_value = split_value
       /\ split(t2).left.size = Cardinality(lower)
       /\ split(t2).right.size = Cardinality(upper)

SplitsTerminate(t) ==
    \A t2 \in Splitting(t, MutInputs) :
        (ExactBounds(t2) /\ ChooseDim(t2, 1, 0, 0) # 0) =>
            SplitsInTwo(t2, ChooseDim(t2, 1, 0, 0))

\* C29: when a leaf whose bounds are the bounding box of its points (a tree
\* built by adds only) splits, the split value lies strictly above min_bounds
\* and at or below max_bounds on the split dimension, so both children
\* receive at least one pair and each holds fewer pairs than the parent: the
\* splitting inside add terminates and add returns.
C29_SplitTerminates ==
    SplitsTerminate(tree) /\ SplitsTerminate(ptree)

\* C29 happens: the third add to a tree of capacity 1 has split a leaf beneath
\* the root, and the bounds of every leaf are the bounding box of its points;
\* a leaf splits again on a further add
C29_Witness ==
    /\ op.name = "add" /\ res.err = "Ok" /\ nadd = 3
    /\ ~tree.leaf /\ (~tree.left.leaf \/ ~tree.right.leaf)
    /\ \A n \in Leaves(tree) : ExactBounds(n)
    /\ \E t2 \in Splitting(tree, MutInputs) :
          ExactBounds(t2) /\ ChooseDim(t2, 1, 0, 0) # 0

\* C30: best_n_within(q, r, 0) and best_n_within_into_iter(q, r, 0) complete
\* normally and return an empty result, even when the tree holds points
\* within the radius: the step never takes the top of an empty result heap.
C30_ZeroQuantityIsEmpty ==
    (op.name \in {"best_n_within", "best_n_within_into_iter"}
        /\ op.num = 0 /\ IsFinite(op.point)) =>
        res.err = "Ok" /\ res.val = <<>>

====
